---- MODULE Spec2Model ----
(***************************************************************************)
(* GroqTranslator (manga_translator/translators/groq.py): the batch loop   *)
(* _translate, the single request _request_translation with its JSON       *)
(* parsing and recovery, the sliding-window chat history and the token     *)
(* counters.                                                               *)
(*                                                                         *)
(* A Python str is a sequence of characters over a small alphabet: the     *)
(* JSON punctuation, the quote, the backslash, a digit and three letters.  *)
(* Words are cut to one letter: the key "translated" is written "t", the   *)
(* translation "hi" is "h" and free text such as "oops" is "w".  CONTEXT_  *)
(* LENGTH ranges over the non-negative values up to MaxContextLength.      *)
(***************************************************************************)
EXTENDS Integers, Sequences, FiniteSets, TLC

\* ------------------------------------------------------------------ bounds
MaxContextLength == 3   \* CONTEXT_LENGTH ranges over 0 .. MaxContextLength
MaxCalls == 2           \* chat-API calls over the life of one instance
MaxTokens == 1          \* total_tokens reported by one call, 1 .. MaxTokens
MaxRawLen == 3          \* every raw response text up to this length is parsed

\* ---------------------------------------------------------------- alphabet
QUOTE  == "\""
BSLASH == "\\"
LBRACE == "{"
RBRACE == "}"
COLON  == ":"
COMMA  == ","
DIGIT  == "1"
TAB    == "\t"
Chars  == {QUOTE, BSLASH, LBRACE, RBRACE, COLON, COMMA, DIGIT, "t", "h", "w"}

\* the str "translated", the key of a TranslationResult
TRANSLATED == <<"t">>

Max(a, b) == IF a > b THEN a ELSE b
Min(a, b) == IF a < b THEN a ELSE b

\* ------------------------------------------------------------- JSON values
\* What json.loads returns: a str, an int or a dict (its members in
\* insertion order, one per key).
StrVal(text) == [kind |-> "str", s |-> text, m |-> <<>>]
NumVal(digits) == [kind |-> "num", s |-> digits, m |-> <<>>]
ObjVal(members) == [kind |-> "obj", s |-> <<>>, m |-> members]

HasKey(members, key) == \E i \in 1..Len(members) : members[i].k = key

\* d[key] = value on a dict: a key already there keeps its place and takes
\* the new value
Put(members, key, value) ==
    IF HasKey(members, key)
    THEN [i \in 1..Len(members) |->
            IF members[i].k = key THEN [k |-> key, v |-> value] ELSE members[i]]
    ELSE Append(members, [k |-> key, v |-> value])

Fail == [ok |-> FALSE, val |-> StrVal(<<>>), next |-> 0]

\* a string literal whose opening quote is before position j
RECURSIVE ScanString(_, _, _)
ScanString(s, j, acc) ==
    IF j > Len(s) THEN Fail
    ELSE IF s[j] = QUOTE THEN [ok |-> TRUE, val |-> StrVal(acc), next |-> j + 1]
    ELSE IF s[j] = BSLASH
         THEN IF j + 1 <= Len(s) /\ s[j + 1] \in {QUOTE, BSLASH}
              THEN ScanString(s, j + 2, Append(acc, s[j + 1]))
              ELSE IF j + 1 <= Len(s) /\ s[j + 1] = "t"
                   THEN ScanString(s, j + 2, Append(acc, TAB))
                   ELSE Fail
    ELSE ScanString(s, j + 1, Append(acc, s[j]))

\* a number literal starting at position i
RECURSIVE ScanNumber(_, _, _)
ScanNumber(s, j, acc) ==
    IF j <= Len(s) /\ s[j] = DIGIT
    THEN ScanNumber(s, j + 1, Append(acc, DIGIT))
    ELSE [ok |-> TRUE, val |-> NumVal(acc), next |-> j]

RECURSIVE ParseValue(_, _)
RECURSIVE ParseMembers(_, _, _)
ParseValue(s, i) ==
    IF i > Len(s) THEN Fail
    ELSE IF s[i] = QUOTE THEN ScanString(s, i + 1, <<>>)
    ELSE IF s[i] = DIGIT THEN ScanNumber(s, i, <<>>)
    ELSE IF s[i] = LBRACE
         THEN IF i + 1 <= Len(s) /\ s[i + 1] = RBRACE
              THEN [ok |-> TRUE, val |-> ObjVal(<<>>), next |-> i + 2]
              ELSE ParseMembers(s, i + 1, <<>>)
    ELSE Fail

\* the members of an object, the next key expected at position i
ParseMembers(s, i, acc) ==
    IF i > Len(s) \/ s[i] # QUOTE THEN Fail
    ELSE LET key == ScanString(s, i + 1, <<>>) IN
         IF ~key.ok \/ key.next > Len(s) \/ s[key.next] # COLON THEN Fail
         ELSE LET value == ParseValue(s, key.next + 1) IN
              IF ~value.ok \/ value.next > Len(s) THEN Fail
              ELSE LET acc2 == Put(acc, key.val.s, value.val) IN
                   IF s[value.next] = RBRACE
                   THEN [ok |-> TRUE, val |-> ObjVal(acc2), next |-> value.next + 1]
                   ELSE IF s[value.next] = COMMA
                        THEN ParseMembers(s, value.next + 1, acc2)
                        ELSE Fail

\* json.loads(s): ok is FALSE where Python raises json.JSONDecodeError
JsonLoads(s) ==
    LET r == ParseValue(s, 1) IN
    IF r.ok /\ r.next = Len(s) + 1
    THEN [ok |-> TRUE, val |-> r.val]
    ELSE [ok |-> FALSE, val |-> StrVal(<<>>)]

\* the text of a str inside a JSON string literal
RECURSIVE Escape(_)
Escape(text) ==
    IF text = <<>> THEN <<>>
    ELSE (IF Head(text) \in {QUOTE, BSLASH} THEN <<BSLASH, Head(text)>>
          ELSE IF Head(text) = TAB THEN <<BSLASH, "t">>
          ELSE <<Head(text)>>)
         \o Escape(Tail(text))

\* json.dumps(value)
RECURSIVE JsonDumps(_)
RECURSIVE DumpMembers(_, _)
JsonDumps(value) ==
    IF value.kind = "str" THEN <<QUOTE>> \o Escape(value.s) \o <<QUOTE>>
    ELSE IF value.kind = "num" THEN value.s
    ELSE <<LBRACE>> \o DumpMembers(value.m, 1) \o <<RBRACE>>

DumpMembers(members, i) ==
    IF i > Len(members) THEN <<>>
    ELSE (IF i > 1 THEN <<COMMA>> ELSE <<>>)
         \o <<QUOTE>> \o Escape(members[i].k) \o <<QUOTE, COLON>>
         \o JsonDumps(members[i].v)
         \o DumpMembers(members, i + 1)


\* -------------------------------------------------------- response parsing
FirstIndex(s, c) ==
    IF \E i \in 1..Len(s) : s[i] = c
    THEN CHOOSE i \in 1..Len(s) : s[i] = c /\ \A j \in 1..(i - 1) : s[j] # c
    ELSE 0

LastIndex(s, c) ==
    IF \E i \in 1..Len(s) : s[i] = c
    THEN CHOOSE i \in 1..Len(s) : s[i] = c /\ \A j \in (i + 1)..Len(s) : s[j] # c
    ELSE 0

\* a lazy \{.*?\} in place of the greedy pattern
ReSearchLazy(s) ==
    LET i == FirstIndex(s, LBRACE)
        after == IF i = 0 THEN <<>> ELSE SubSeq(s, i + 1, Len(s))
        j == FirstIndex(after, RBRACE)
    IN  IF i > 0 /\ j > 0
        THEN [found |-> TRUE, group |-> SubSeq(s, i, i + j)]
        ELSE [found |-> FALSE, group |-> <<>>]

\* re.search(r'\{.*\}', s, re.DOTALL): the leftmost match starts at the
\* first "{" that has a "}" after it, and the greedy .* runs to the last "}"
ReSearch(s) ==
    LET i == FirstIndex(s, LBRACE)
        j == LastIndex(s, RBRACE)
    IN  IF i > 0 /\ j > i
        THEN [found |-> TRUE, group |-> SubSeq(s, i, j)]
        ELSE [found |-> FALSE, group |-> <<>>]

\* {"translated": raw_content}
Fallback(raw_content) == ObjVal(<<[k |-> TRANSLATED, v |-> StrVal(raw_content)]>>)

\* step 7 of _request_translation: the value bound to data
ParseResponse(raw_content) ==
    LET strict == JsonLoads(raw_content) IN
    IF strict.ok THEN strict.val
    ELSE LET match == ReSearch(raw_content) IN
         IF match.found
         THEN LET inner == JsonLoads(match.group) IN
              IF inner.ok THEN inner.val ELSE Fallback(raw_content)
         ELSE Fallback(raw_content)

\* response.get("translated", "") on a dict
Get(data, key, default) ==
    IF HasKey(data.m, key)
    THEN data.m[CHOOSE i \in 1..Len(data.m) : data.m[i].k = key].v
    ELSE default

\* ---------------------------------------------------------------- messages
\* s[start:] as Python slices a list
PySliceFrom(s, start) ==
    LET from == IF start < 0 THEN Max(Len(s) + start, 0) ELSE Min(start, Len(s))
    IN  SubSeq(s, from + 1, Len(s))

Message(role, content) == [role |-> role, content |-> content]

SystemMsg(to_lang) == Message("system", <<"system_template", to_lang, "glossary">>)

\* the user prompt: the fragment is put between the quotes as it is
UserContent(to_lang, prompt) ==
    <<"Translate the following text into", to_lang>>
    \o <<LBRACE, QUOTE, "untranslated", QUOTE, COLON, QUOTE>> \o prompt \o <<QUOTE, RBRACE>>

UserMsg(to_lang, prompt) == Message("user", UserContent(to_lang, prompt))

AssistantMsg(data) == Message("assistant", JsonDumps(data))

CHAT_SAMPLE ==
    << UserContent("English", <<"x">>),
       <<LBRACE, QUOTE, "t", QUOTE, COLON, QUOTE, "e", QUOTE, RBRACE>> >>

\* self.messages as __init__ leaves it
SeedMessages == << Message("user", CHAT_SAMPLE[1]), Message("assistant", CHAT_SAMPLE[2]) >>

\* step 4 of _request_translation: current_messages
CurrentMessages(msgs, user, max_context) ==
    LET current == Append(msgs, user) IN
    IF Len(current) > max_context THEN PySliceFrom(current, 0 - max_context) ELSE current

\* the messages argument of chat.completions.create
OutgoingMessages(msgs, to_lang, prompt, max_context) ==
    <<SystemMsg(to_lang)>> \o CurrentMessages(msgs, UserMsg(to_lang, prompt), max_context)

\* retention that ignores the flag
RetainAlways(retention, msgs, user, data, max_context) ==
    LET grown == msgs \o <<user, AssistantMsg(data)>> IN
    IF Len(grown) > max_context THEN PySliceFrom(grown, 0 - max_context) ELSE grown

\* step 8 of _request_translation: self.messages afterwards
Retain(retention, msgs, user, data, max_context) ==
    IF retention
    THEN LET grown == msgs \o <<user, AssistantMsg(data)>> IN
         IF Len(grown) > max_context THEN PySliceFrom(grown, 0 - max_context) ELSE grown
    ELSE msgs

\* ------------------------------------------------------------ token usage
NoUsage == [present |-> FALSE, total_tokens |-> 0]
Usage(n) == [present |-> TRUE, total_tokens |-> n]
Usages == {NoUsage} \cup {Usage(n) : n \in 1..MaxTokens}

\* an assignment in place of the +=
TokenCountAssigned(count, usage) == IF usage.present THEN usage.total_tokens ELSE count

\* step 6 of _request_translation
TokenCountAfter(count, usage) == IF usage.present THEN count + usage.total_tokens ELSE count
TokenCountLastAfter(last, usage) == IF usage.present THEN usage.total_tokens ELSE last

\* ------------------------------------------------------------------ inputs
Prompts == {<<"a">>, <<"b">>}
ToLangs == {"English"}

RECURSIVE SeqsUpTo(_, _)
SeqsUpTo(S, n) ==
    IF n = 0 THEN {<<>>}
    ELSE LET shorter == SeqsUpTo(S, n - 1) IN
         shorter \cup {Append(s, e) : s \in shorter, e \in S}

QueryLists == SeqsUpTo(Prompts, MaxCalls)

JsonHi == <<LBRACE, QUOTE, "t", QUOTE, COLON, QUOTE, "h", QUOTE, RBRACE>>

\* what the model may answer
Responses ==
    { JsonHi,                                                  \* {"translated": "hi"}
      <<"w">> \o JsonHi \o <<"w">>,                            \* Here you go: {...} thanks
      <<"w">>,                                                 \* oops
      <<LBRACE, QUOTE, "h", QUOTE, COLON, QUOTE, "h", QUOTE, RBRACE>>,  \* {"hi": "hi"}
      <<DIGIT>>,                                               \* 1
      <<LBRACE, "w", RBRACE, RBRACE>> }                        \* {oops}}

\* ------------------------------------------------------------------- state
VARIABLES
    MAX_CONTEXT,        \* _MAX_CONTEXT, read once from CONTEXT_LENGTH
    CONTEXT_RETENTION,  \* _CONTEXT_RETENTION, read once from the environment
    messages,           \* self.messages
    token_count,        \* self.token_count
    token_count_last,   \* self.token_count_last
    pc,                 \* where _translate is: idle, awaiting, returned, raised, ...
    to_lang,            \* the to_lang argument of the running _translate
    queries,            \* the queries argument of the running _translate
    idx,                \* the position of the loop in queries
    results,            \* the local results of _translate
    sent,               \* the messages of the chat-API call in flight
    error,              \* what _translate raised
    calls,              \* history: the fragments of the calls issued by this _translate
    raws,               \* history: the raw response of each answered call of this _translate
    datas,              \* history: what _request_translation returned for each
    usageLog,           \* history: the total_tokens of every call that carried usage
    nCalls              \* history: the calls issued by this instance

vars == <<MAX_CONTEXT, CONTEXT_RETENTION, messages, token_count, token_count_last, pc,
          to_lang, queries, idx, results, sent, error, calls, raws, datas, usageLog, nCalls>>

config == <<MAX_CONTEXT, CONTEXT_RETENTION>>
counters == <<token_count, token_count_last, usageLog>>

ContextLengths == 0..MaxContextLength

\* __init__
Constructed ==
    /\ messages = SeedMessages
    /\ token_count = 0
    /\ token_count_last = 0
    /\ to_lang = "English"
    /\ queries = <<>>
    /\ idx = 0
    /\ results = <<>>
    /\ sent = <<>>
    /\ error = "none"
    /\ calls = <<>>
    /\ raws = <<>>
    /\ datas = <<>>
    /\ usageLog = <<>>
    /\ nCalls = 0

Init ==
    /\ MAX_CONTEXT \in ContextLengths
    /\ CONTEXT_RETENTION \in BOOLEAN
    /\ pc = "idle"
    /\ Constructed

\* the for loop of _translate moving to the next fragment
NextIndex(i) == i + 1

\* _translate up to its first await
Translate(lang, q) ==
    /\ pc \in {"idle", "returned", "raised"}
    /\ nCalls + Len(q) <= MaxCalls
    /\ to_lang' = lang
    /\ queries' = q
    /\ results' = <<>>
    /\ error' = "none"
    /\ raws' = <<>>
    /\ datas' = <<>>
    /\ IF q = <<>>
       THEN /\ pc' = "returned"
            /\ idx' = 0
            /\ sent' = <<>>
            /\ calls' = <<>>
            /\ nCalls' = nCalls
       ELSE /\ pc' = "awaiting"
            /\ idx' = 1
            /\ sent' = OutgoingMessages(messages, lang, q[1], MAX_CONTEXT)
            /\ calls' = <<q[1]>>
            /\ nCalls' = nCalls + 1
    /\ UNCHANGED <<config, messages, counters>>

\* the chat API answers: the rest of _request_translation, then _translate up
\* to its next await or its end
ApiRespond(raw_content, usage) ==
    /\ pc = "awaiting"
    /\ token_count' = TokenCountAfter(token_count, usage)
    /\ token_count_last' = TokenCountLastAfter(token_count_last, usage)
    /\ usageLog' = IF usage.present THEN Append(usageLog, usage.total_tokens) ELSE usageLog
    /\ LET data == ParseResponse(raw_content)
           after == Retain(CONTEXT_RETENTION, messages, UserMsg(to_lang, queries[idx]),
                           data, MAX_CONTEXT)
       IN  /\ messages' = after
           /\ raws' = Append(raws, raw_content)
           /\ datas' = Append(datas, data)
           /\ IF data.kind # "obj"
              THEN \* an int or a str has no get
                   /\ pc' = "raised"
                   /\ error' = "AttributeError"
                   /\ sent' = <<>>
                   /\ UNCHANGED <<results, idx, calls, nCalls>>
              ELSE /\ results' = Append(results, Get(data, TRANSLATED, StrVal(<<>>)))
                   /\ error' = error
                   /\ IF NextIndex(idx) <= Len(queries)
                      THEN /\ pc' = "awaiting"
                           /\ idx' = NextIndex(idx)
                           /\ sent' = OutgoingMessages(after, to_lang,
                                                       queries[NextIndex(idx)], MAX_CONTEXT)
                           /\ calls' = Append(calls, queries[NextIndex(idx)])
                           /\ nCalls' = nCalls + 1
                      ELSE /\ pc' = "returned"
                           /\ sent' = <<>>
                           /\ UNCHANGED <<idx, calls, nCalls>>
    /\ UNCHANGED <<config, to_lang, queries>>

\* a failed call that is issued again
ApiFailRetried ==
    /\ pc = "awaiting"
    /\ nCalls < MaxCalls + 1
    /\ calls' = Append(calls, queries[idx])
    /\ nCalls' = nCalls + 1
    /\ UNCHANGED <<config, messages, counters, pc, to_lang, queries, idx, results,
                   sent, error, raws, datas>>

\* the chat API call raises (network, rate limit, authentication): nothing
\* catches it
ApiFail ==
    /\ pc = "awaiting"
    /\ pc' = "raised"
    /\ error' = "APIError"
    /\ sent' = <<>>
    /\ UNCHANGED <<config, messages, counters, to_lang, queries, idx, results,
                   calls, raws, datas, nCalls>>

Next ==
    \/ \E lang \in ToLangs, q \in QueryLists : Translate(lang, q)
    \/ \E raw_content \in Responses, usage \in Usages : ApiRespond(raw_content, usage)
    \/ ApiFail

Spec == Init /\ [][Next]_vars

\* ---------------------------------------------- the parser on its own
AllTexts == SeqsUpTo(Chars, MaxRawLen) \cup Responses

InitParse ==
    /\ MAX_CONTEXT = 20
    /\ CONTEXT_RETENTION \in BOOLEAN
    /\ pc = "parse"
    /\ messages = SeedMessages
    /\ token_count = 0
    /\ token_count_last = 0
    /\ to_lang = "English"
    /\ queries = <<>>
    /\ idx = 0
    /\ results = <<>>
    /\ sent = <<>>
    /\ error = "none"
    /\ calls = <<>>
    /\ raws \in {<<raw_content>> : raw_content \in AllTexts}
    /\ datas = <<>>
    /\ usageLog = <<>>
    /\ nCalls = 0

\* steps 7 and 8 of _request_translation on the raw text in raws
ParseStep ==
    /\ pc = "parse"
    /\ pc' = "parsed"
    /\ datas' = <<ParseResponse(raws[1])>>
    /\ messages' = Retain(CONTEXT_RETENTION, messages, UserMsg(to_lang, <<"a">>),
                          ParseResponse(raws[1]), MAX_CONTEXT)
    /\ UNCHANGED <<config, counters, to_lang, queries, idx, results, sent, error,
                   calls, raws, nCalls>>

NextParse == ParseStep

SpecParse == InitParse /\ [][NextParse]_vars

\* ------------------------------------------------------------- properties
\* the most recent n elements of s
LastN(s, n) == SubSeq(s, Len(s) - Min(n, Len(s)) + 1, Len(s))

RECURSIVE Sum(_)
Sum(s) == IF s = <<>> THEN 0 ELSE Head(s) + Sum(Tail(s))

IsPrefix(p, s) == Len(p) <= Len(s) /\ \A i \in 1..Len(p) : p[i] = s[i]
IsSuffix(p, s) == Len(p) <= Len(s) /\ \A i \in 1..Len(p) : p[i] = s[Len(s) - Len(p) + i]

HasTranslated(data) == data.kind = "obj" /\ HasKey(data.m, TRANSLATED)

\* a step in which the call in flight is answered
Answered == pc = "awaiting" /\ Len(raws') = Len(raws) + 1

\* C1: when every chat-API call of a _translate returns a response, _translate
\* returns a list with one entry per fragment, entry i derived from the
\* response to fragment i; the response {"translated": "hi"} gives exactly "hi".
C1_OneEntryPerFragment ==
    /\ pc = "raised" => error = "APIError"
    /\ pc = "returned" =>
         /\ Len(results) = Len(queries)
         /\ \A i \in 1..Len(results) :
              /\ HasTranslated(datas[i]) => results[i] = Get(datas[i], TRANSLATED, StrVal(<<>>))
              /\ raws[i] = JsonHi => results[i] = StrVal(<<"h">>)

\* C2: in every reachable state, for every configured _MAX_CONTEXT, the stored
\* history self.messages has at most _MAX_CONTEXT messages.
C2_HistoryBounded == Len(messages) <= MAX_CONTEXT

\* C3: token_count is the sum of the total_tokens of the calls that carried
\* usage and token_count_last the most recent of them; an answer without usage
\* leaves both as they are; token_count never decreases.
C3_TokenCounters ==
    /\ [](/\ token_count = Sum(usageLog)
          /\ token_count_last = IF usageLog = <<>> THEN 0 ELSE usageLog[Len(usageLog)])
    /\ [][token_count' >= token_count]_vars
    /\ [][(Answered /\ usageLog' = usageLog)
            => (token_count' = token_count /\ token_count_last' = token_count_last)]_vars

C3_Witness ==
    /\ Len(usageLog) = 2
    /\ token_count > token_count_last
    /\ Len(raws) = 2

\* C4: a parsed response without a "translated" key, whatever JSON value it
\* is, gives the empty string at its fragment's position, and _translate does
\* not raise because of it.
C4_MissingKeyGivesEmptyString ==
    /\ error # "AttributeError"
    /\ \A i \in 1..Len(results) : ~HasTranslated(datas[i]) => results[i] = StrVal(<<>>)

\* the span from the first "{" of the text to its last "}", <<>> when the text
\* has none
BraceSpan(text) ==
    LET opens == {i \in 1..Len(text) : text[i] = LBRACE}
        closes == {i \in 1..Len(text) : text[i] = RBRACE}
    IN  IF opens = {} \/ closes = {} THEN <<>>
        ELSE LET first == CHOOSE i \in opens : \A j \in opens : i <= j
                 last == CHOOSE i \in closes : \A j \in closes : j <= i
             IN  IF first < last THEN SubSeq(text, first, last) ELSE <<>>

\* C5: for a raw response text that is not valid JSON, _request_translation
\* returns a dict: the parse of the span from the first "{" to the last "}"
\* when that span parses, and {"translated": raw text} otherwise.
C5_RecoveredResult ==
    \A i \in 1..Len(datas) :
        ~JsonLoads(raws[i]).ok =>
            /\ datas[i].kind = "obj"
            /\ datas[i] = IF BraceSpan(raws[i]) # <<>> /\ JsonLoads(BraceSpan(raws[i])).ok
                          THEN JsonLoads(BraceSpan(raws[i])).val
                          ELSE ObjVal(<<[k |-> TRANSLATED, v |-> StrVal(raws[i])]>>)

C5_Witness ==
    /\ pc = "parsed"
    /\ raws[1] = <<"w">> \o JsonHi \o <<"w">>
    /\ datas[1] = ObjVal(<<[k |-> TRANSLATED, v |-> StrVal(<<"h">>)]>>)

\* C6: the calls of a _translate are one per fragment in fragment order, at
\* most one of them unanswered at a time, all of them issued when it returns;
\* a failed call is not issued again, _translate raises, no call follows for
\* the remaining fragments, and the history and the counters stay as they were.
C6_SequentialNoRetry ==
    /\ [](/\ IsPrefix(calls, queries)
          /\ Len(raws) <= Len(calls)
          /\ Len(calls) <= Len(raws) + 1
          /\ (pc = "awaiting" => Len(calls) = Len(raws) + 1)
          /\ (pc = "returned" => calls = queries))
    /\ [][(pc = "awaiting" /\ raws' = raws)
            => /\ pc' = "raised"
               /\ error' = "APIError"
               /\ calls' = calls
               /\ nCalls' = nCalls
               /\ messages' = messages
               /\ token_count' = token_count
               /\ token_count_last' = token_count_last]_vars
    /\ [][(pc = "raised" /\ nCalls' # nCalls) => (raws' = <<>> /\ Len(calls') = 1)]_vars

C6_Witness ==
    /\ pc = "raised"
    /\ error = "APIError"
    /\ Len(raws) = 1
    /\ Len(calls) = 2
    /\ Len(queries) = 2

\* C7: the list sent is the system message, then the stored history cut to
\* its most recent _MAX_CONTEXT messages, then the new user message.
C7_SentIsSystemHistoryUser ==
    pc = "awaiting" =>
        sent = <<SystemMsg(to_lang)>> \o LastN(messages, MAX_CONTEXT)
               \o <<UserMsg(to_lang, queries[idx])>>

\* C8: with retention enabled, after an answered request the stored history
\* is the most recent _MAX_CONTEXT elements of the history before it followed
\* by the request's user message and the assistant message with the dumped
\* result.
C8_RetainedHistory ==
    [][(CONTEXT_RETENTION /\ Answered)
         => messages' = LastN(messages \o <<UserMsg(to_lang, queries[idx]),
                                            AssistantMsg(datas'[Len(datas')])>>,
                              MAX_CONTEXT)]_vars

\* C9: with retention disabled the stored history stays equal to the two
\* seed messages, and the history part of every request is taken from that
\* seed.
C9_SeedOnlyWithoutRetention ==
    ~CONTEXT_RETENTION =>
        /\ messages = SeedMessages
        /\ pc = "awaiting" =>
             /\ Len(sent) >= 2
             /\ sent[1] = SystemMsg(to_lang)
             /\ sent[Len(sent)] = UserMsg(to_lang, queries[idx])
             /\ IsSuffix(SubSeq(sent, 2, Len(sent) - 1), SeedMessages)

C9_Witness ==
    /\ ~CONTEXT_RETENTION
    /\ pc = "awaiting"
    /\ Len(raws) = 1
    /\ nCalls = 2

\* C10: with retention enabled, the messages sent after the system message
\* start with a user message and alternate between user and assistant.
C10_RolesAlternate ==
    (CONTEXT_RETENTION /\ pc = "awaiting") =>
        /\ Len(sent) >= 2
        /\ sent[2].role = "user"
        /\ \A i \in 2..(Len(sent) - 1) : sent[i].role # sent[i + 1].role

====
